---- MODULE Spec2Model ----
(***************************************************************************)
(* Model of the BLE OTA receiver, main/ota_ble_receiver.c: the GATT access *)
(* callback ota_char_access_cb and the three handlers it dispatches to,    *)
(* handle_ota_init, handle_ota_chunk and handle_ota_end, over the five     *)
(* file-scope session variables.  The ESP-IDF OTA functions (the update    *)
(* sink) are the environment: every call is recorded in sinklog with its   *)
(* arguments, and its result is a nondeterministic choice.                 *)
(* Spec and SpecRoundTrip deliver one access at a time; SpecInterleaved    *)
(* runs the callback for two connections at once, statement by statement.  *)
(***************************************************************************)
EXTENDS Integers, Sequences, FiniteSets, TLC

VARIABLES
    ota_handle,         \* esp_ota_handle_t ota_handle        (0 = never set)
    ota_partition,      \* const esp_partition_t *ota_partition (0 = NULL)
    ota_total_size,     \* int ota_total_size     (32-bit signed)
    ota_bytes_written,  \* int ota_bytes_written  (32-bit signed)
    receiving_state,    \* int receiving_state: 0 idle, 1 receiving, 2 error
    restarted,          \* esp_restart() has been called (it does not return)
    sinklog,            \* every call made to the update sink since boot, in order
    ctxt,               \* the last GATT access: its op, its mbuf and the value returned
    prev,               \* history: the session variables before the last access
    mark,               \* history: Len(sinklog) before the last access
    trace,              \* history: the mbuf of every access delivered since boot
    pc,                 \* per connection: the line its callback is at ("idle" = none)
    loc,                \* per connection: the callback's locals (mbuf, err)
    overlap             \* history: a callback has started while another was running

session == <<ota_handle, ota_partition, ota_total_size, ota_bytes_written, receiving_state>>
callbacks == <<pc, loc, overlap>>
vars == <<ota_handle, ota_partition, ota_total_size, ota_bytes_written, receiving_state,
          restarted, sinklog, ctxt, prev, mark, trace, pc, loc, overlap>>

\* ---------------------------------------------------------------- bounds
\* accesses delivered per run, in the general and in the round-trip specification
MaxMsgs == 3
MaxRoundTrip == 4

\* ------------------------------------------------------ program constants
OTA_MSG_INIT == 1
OTA_MSG_CHUNK == 2
OTA_MSG_END == 3
BufSize == 512
InitMinLen == 4
BLE_ATT_ERR_INVALID_ATTR_VALUE_LEN == 13
BLE_ATT_ERR_UNLIKELY == 14
NoReturn == -1

IDLE == 0
RECEIVING == 1
ERROR == 2

NULL == 0
\* the OTA app slots esp_ota_get_next_update_partition can return (besides NULL)
Partitions == {1, 2}

\* ------------------------------------------------------ 32-bit arithmetic
\* A 32-bit pattern is the tuple of its four bytes, most significant first.
RECURSIVE BitOr8(_, _)
BitOr8(a, b) ==
    IF a = 0 THEN b
    ELSE IF b = 0 THEN a
    ELSE (IF (a % 2 = 1) \/ (b % 2 = 1) THEN 1 ELSE 0) + 2 * BitOr8(a \div 2, b \div 2)

BitOr32(x, y) == [i \in 1..4 |-> BitOr8(x[i], y[i])]

\* uint8_t promoted to int
Promote(b) == <<0, 0, 0, b>>

\* x << (8*k) on a 32-bit int: the bytes shifted out at the top are lost
ShlBytes(x, k) == [i \in 1..4 |-> IF i + k <= 4 THEN x[i + k] ELSE 0]

\* the value of a 32-bit pattern read as a (two's complement) int
AsInt(x) ==
    (IF x[1] >= 128 THEN x[1] - 256 ELSE x[1]) * 16777216
        + x[2] * 65536 + x[3] * 256 + x[4]

\* An integer outside TLC's own range is written hi * 65536 + lo, 0 <= lo < 65536.
Wide(v) == [hi |-> v \div 65536, lo |-> v % 65536]

\* (size_t) v for an int v : the same 32 bits read unsigned
SizeT(v) == [hi |-> (v \div 65536) % 65536, lo |-> v % 65536]

\* (data[0] << 24) | (data[1] << 16) | (data[2] << 8) | data[3], stored in an int.
\* data[0] << 24 overflows int for data[0] >= 0x80; the compiler of the build (GCC)
\* defines the result as the wrapped two's complement value.
DecodeTotalSize_littleEndian(data) ==
    AsInt(BitOr32(BitOr32(BitOr32(ShlBytes(Promote(data[4]), 3),
                                  ShlBytes(Promote(data[3]), 2)),
                          ShlBytes(Promote(data[2]), 1)),
                  Promote(data[1])))
DecodeTotalSize(data) ==
    AsInt(BitOr32(BitOr32(BitOr32(ShlBytes(Promote(data[1]), 3),
                                  ShlBytes(Promote(data[2]), 2)),
                          ShlBytes(Promote(data[3]), 1)),
                  Promote(data[4])))

\* ------------------------------------------------------------- the inputs
Fill(n, b) == [i \in 1..n |-> b]

\* the writes a peer sends in the general specification: every kind of message,
\* each short enough for buf
Messages ==
    { <<>>,                                 \* zero-length write
      <<9>>,                                \* unknown tag
      <<OTA_MSG_INIT, 0, 4>>,               \* INIT with a 2-byte payload
      <<OTA_MSG_INIT, 0, 0, 0, 0>>,         \* INIT(0)
      <<OTA_MSG_INIT, 128, 0, 0, 1, 7>>,    \* INIT(0x80000001) and a trailing byte
      <<OTA_MSG_CHUNK>>,                    \* CHUNK with no payload
      <<OTA_MSG_CHUNK, 170>>,
      <<OTA_MSG_CHUNK, 187, 170>>,
      <<OTA_MSG_END>> }

\* the writes of the round-trip scenario INIT(1024), CHUNK(512 x 0xAA),
\* CHUNK(512 x 0xBB), END, with a zero-length write and an unknown tag
RoundTripInit == <<OTA_MSG_INIT, 0, 0, 4, 0>>
RoundTripChunkA == <<OTA_MSG_CHUNK>> \o Fill(BufSize, 170)
RoundTripChunkB == <<OTA_MSG_CHUNK>> \o Fill(BufSize, 187)
RoundTripEnd == <<OTA_MSG_END>>
RoundTripMessages ==
    { <<>>, <<9>>, RoundTripInit, RoundTripChunkA, RoundTripChunkB, RoundTripEnd }

\* the connections whose writes the host delivers to the callback
Conns == {1, 2}

\* what a read of a byte of the stack that was never written can return
StackBytes == {0, 170}

\* -------------------------------------------------------- the update sink
\* esp_ota_begin hands out a handle it has not handed out before, never 0
FreshHandle(log) == Len(SelectSeq(log, LAMBDA c : c.op = "begin" /\ c.ok)) + 1

Snapshot ==
    [handle |-> ota_handle, partition |-> ota_partition, total |-> ota_total_size,
     written |-> ota_bytes_written, state |-> receiving_state]

Min(a, b) == IF a < b THEN a ELSE b

\* ----------------------------------------------------- the receive buffer
\* uint8_t buf[512]; ble_hs_mbuf_to_flat(ctxt->om, buf, sizeof(buf), NULL) copies at
\* most sizeof(buf) bytes of the mbuf into buf.  buf[i] (0-based) is the copied byte
\* when i is below the number of bytes copied; any other read (the rest of buf,
\* never written, or past the end of buf) returns what the stack holds, g.
BufByte(om, i, g) == IF i < Min(Len(om), BufSize) THEN om[i + 1] ELSE g

\* the n bytes a handler can read through data = &buf[1]
ReadData(om, n, g) == [j \in 1..n |-> BufByte(om, j, g)]

\* -------------------------------------------------------- handle_ota_init
InitTooShort_never(len) == FALSE
InitTooShort(len) == len < InitMinLen

StateAfterBegin_idle(ok) == IF ok THEN RECEIVING ELSE IDLE
StateAfterBegin_receiving(ok) == RECEIVING
StateAfterBegin(ok) == IF ok THEN RECEIVING ELSE ERROR

\* esp_ota_begin(.., &ota_handle) stores a handle only when it succeeds
HandleAfterBegin(ok, h) == IF ok THEN h ELSE ota_handle

handle_ota_init(data, len, part, ok) ==
    IF InitTooShort(len)
    THEN UNCHANGED <<session, sinklog, restarted>>
    ELSE LET total == DecodeTotalSize(data)
             h == FreshHandle(sinklog)
         IN /\ ota_total_size' = total
            /\ ota_bytes_written' = 0
            /\ ota_partition' = part
            /\ sinklog' = Append(sinklog,
                    [op |-> "begin", partition |-> part, size |-> SizeT(total),
                     ok |-> ok, handle |-> IF ok THEN h ELSE 0])
            /\ ota_handle' = HandleAfterBegin(ok, h)
            /\ receiving_state' = StateAfterBegin(ok)
            /\ UNCHANGED restarted

\* ------------------------------------------------------- handle_ota_chunk
ChunkAccepted_handleOnly == ota_handle # 0
ChunkAccepted == receiving_state = RECEIVING /\ ota_handle # 0

StateAfterWrite_keep(ok) == receiving_state
StateAfterWrite(ok) == IF ok THEN receiving_state ELSE ERROR

WrittenAfterWrite_capped(ok, len) ==
    IF ok /\ ota_bytes_written + len <= ota_total_size
    THEN ota_bytes_written + len
    ELSE ota_bytes_written
WrittenAfterWrite(ok, len) == IF ok THEN ota_bytes_written + len ELSE ota_bytes_written

handle_ota_chunk(data, len, ok) ==
    IF ~ChunkAccepted
    THEN UNCHANGED <<session, sinklog, restarted>>
    ELSE /\ sinklog' = Append(sinklog,
                 [op |-> "write", handle |-> ota_handle, data |-> data, ok |-> ok])
         /\ receiving_state' = StateAfterWrite(ok)
         /\ ota_bytes_written' = WrittenAfterWrite(ok, len)
         /\ UNCHANGED <<ota_handle, ota_partition, ota_total_size, restarted>>

\* --------------------------------------------------------- handle_ota_end
EndAccepted_always == TRUE
EndAccepted == ota_handle # 0

\* the sink calls of one END: esp_ota_end, then esp_ota_set_boot_partition when
\* that succeeded, then esp_restart when that succeeded too
EndCalls_noStop(endOk, bootOk) ==
    <<[op |-> "end", handle |-> ota_handle, ok |-> endOk],
      [op |-> "set_boot", partition |-> ota_partition, ok |-> bootOk]>>
    \o (IF endOk /\ bootOk THEN <<[op |-> "restart"]>> ELSE <<>>)
EndCalls(endOk, bootOk) ==
    <<[op |-> "end", handle |-> ota_handle, ok |-> endOk]>>
    \o (IF endOk
        THEN <<[op |-> "set_boot", partition |-> ota_partition, ok |-> bootOk]>>
        ELSE <<>>)
    \o (IF endOk /\ bootOk THEN <<[op |-> "restart"]>> ELSE <<>>)

\* esp_restart() is reached only past both error returns
RestartReached_afterFinalize(endOk, bootOk) == endOk
RestartReached(endOk, bootOk) == endOk /\ bootOk

handle_ota_end(endOk, bootOk) ==
    IF ~EndAccepted
    THEN UNCHANGED <<session, sinklog, restarted>>
    ELSE /\ sinklog' = sinklog \o EndCalls(endOk, bootOk)
         /\ restarted' = RestartReached(endOk, bootOk)
         /\ UNCHANGED session

\* ----------------------------------------------------- ota_char_access_cb
\* every access: the device is up, and the history variables record the access
Deliver(op, om, max) ==
    /\ ~restarted
    /\ Len(trace) < max
    /\ trace' = Append(trace, [op |-> op, om |-> om])
    /\ prev' = Snapshot
    /\ mark' = Len(sinklog)
    /\ UNCHANGED callbacks

\* if (len < 1) return BLE_ATT_ERR_INVALID_ATTR_VALUE_LEN;
LenRejected_never(len) == FALSE
LenRejected(len) == len < 1

\* the value the write branch returns: 0, unless esp_restart() was reached
WriteReturn == IF restarted' THEN NoReturn ELSE 0

Hello == <<72, 101, 108, 108, 111>>

\* case BLE_GATT_ACCESS_OP_READ_CHR
ReadChr(max) ==
    /\ Deliver("read", <<>>, max)
    /\ ctxt' = [op |-> "read", om |-> Hello, ret |-> 0]
    /\ UNCHANGED <<session, sinklog, restarted>>

\* any other ctxt->op
OtherOp(max) ==
    /\ Deliver("other", <<>>, max)
    /\ ctxt' = [op |-> "other", om |-> <<>>, ret |-> BLE_ATT_ERR_UNLIKELY]
    /\ UNCHANGED <<session, sinklog, restarted>>

\* case BLE_GATT_ACCESS_OP_WRITE_CHR, len < 1
WriteEmpty(M, max) ==
    \E om \in M :
        /\ LenRejected(Len(om))
        /\ Deliver("write", om, max)
        /\ ctxt' = [op |-> "write", om |-> om, ret |-> BLE_ATT_ERR_INVALID_ATTR_VALUE_LEN]
        /\ UNCHANGED <<session, sinklog, restarted>>

\* case OTA_MSG_INIT
WriteInit(M, max) ==
    \E om \in M, g \in StackBytes, part \in Partitions \cup {NULL}, ok \in BOOLEAN :
        /\ ~LenRejected(Len(om))
        /\ BufByte(om, 0, g) = OTA_MSG_INIT
        /\ (part = NULL => ~ok)
        /\ Deliver("write", om, max)
        /\ handle_ota_init(ReadData(om, InitMinLen, g), Len(om) - 1, part, ok)
        /\ ctxt' = [op |-> "write", om |-> om, ret |-> WriteReturn]

\* case OTA_MSG_CHUNK
WriteChunk(M, max) ==
    \E om \in M, g \in StackBytes, ok \in BOOLEAN :
        /\ ~LenRejected(Len(om))
        /\ BufByte(om, 0, g) = OTA_MSG_CHUNK
        /\ Deliver("write", om, max)
        /\ handle_ota_chunk(ReadData(om, Len(om) - 1, g), Len(om) - 1, ok)
        /\ ctxt' = [op |-> "write", om |-> om, ret |-> WriteReturn]

\* case OTA_MSG_END
WriteEnd(M, max) ==
    \E om \in M, g \in StackBytes, endOk \in BOOLEAN, bootOk \in BOOLEAN :
        /\ ~LenRejected(Len(om))
        /\ BufByte(om, 0, g) = OTA_MSG_END
        /\ Deliver("write", om, max)
        /\ handle_ota_end(endOk, bootOk)
        /\ ctxt' = [op |-> "write", om |-> om, ret |-> WriteReturn]

\* default: unknown command
WriteUnknown(M, max) ==
    \E om \in M, g \in StackBytes :
        /\ ~LenRejected(Len(om))
        /\ BufByte(om, 0, g) \notin {OTA_MSG_INIT, OTA_MSG_CHUNK, OTA_MSG_END}
        /\ Deliver("write", om, max)
        /\ ctxt' = [op |-> "write", om |-> om, ret |-> 0]
        /\ UNCHANGED <<session, sinklog, restarted>>

Init ==
    /\ ota_handle = 0
    /\ ota_partition = NULL
    /\ ota_total_size = 0
    /\ ota_bytes_written = 0
    /\ receiving_state = IDLE
    /\ restarted = FALSE
    /\ sinklog = <<>>
    /\ ctxt = [op |-> "none", om |-> <<>>, ret |-> 0]
    /\ prev = [handle |-> 0, partition |-> NULL, total |-> 0, written |-> 0, state |-> IDLE]
    /\ mark = 0
    /\ trace = <<>>
    /\ pc = [c \in Conns |-> "idle"]
    /\ loc = [c \in Conns |-> [om |-> <<>>, seq |-> 0, err |-> FALSE]]
    /\ overlap = FALSE

Next ==
    \/ ReadChr(MaxMsgs)
    \/ OtherOp(MaxMsgs)
    \/ WriteEmpty(Messages, MaxMsgs)
    \/ WriteInit(Messages, MaxMsgs)
    \/ WriteChunk(Messages, MaxMsgs)
    \/ WriteEnd(Messages, MaxMsgs)
    \/ WriteUnknown(Messages, MaxMsgs)

Spec == Init /\ [][Next]_vars

\* the same callback, driven by the writes of the round-trip scenario in any order
NextRoundTrip ==
    \/ ReadChr(MaxRoundTrip)
    \/ OtherOp(MaxRoundTrip)
    \/ WriteEmpty(RoundTripMessages, MaxRoundTrip)
    \/ WriteInit(RoundTripMessages, MaxRoundTrip)
    \/ WriteChunk(RoundTripMessages, MaxRoundTrip)
    \/ WriteEnd(RoundTripMessages, MaxRoundTrip)
    \/ WriteUnknown(RoundTripMessages, MaxRoundTrip)

SpecRoundTrip == Init /\ [][NextRoundTrip]_vars

\* =================================================================
\* The same callback entered from two connections with no lock, its
\* statements interleaving.  pc[c] is the line connection c's callback is
\* about to execute; each action is one statement of a handler.
\* =================================================================
MaxConcMsgs == 3

\* the writes the two connections send
ConcMessages ==
    { <<>>, <<9>>,
      <<OTA_MSG_INIT, 0, 4>>,
      <<OTA_MSG_INIT, 0, 0, 0, 0>>,
      <<OTA_MSG_CHUNK, 170>>,
      <<OTA_MSG_END>> }

Goto(c, l) == pc' = [pc EXCEPT ![c] = l]
SetErr(c, e) == loc' = [loc EXCEPT ![c].err = e]
Running(c) == ~restarted /\ pc[c] # "idle"
Data(c) == Tail(loc[c].om)

\* the handler the tag switch calls (lines 115-128), by its first line
Handler(om) ==
    IF LenRejected(Len(om)) THEN "idle"
    ELSE IF om[1] = OTA_MSG_INIT THEN "init_39"
    ELSE IF om[1] = OTA_MSG_CHUNK THEN "chunk_59"
    ELSE IF om[1] = OTA_MSG_END THEN "end_80"
    ELSE "idle"

\* if (err != ESP_OK) receiving_state = 2;
StateAfterErr_keep(err) == receiving_state
StateAfterErr(err) == IF err THEN ERROR ELSE receiving_state

\* a write arrives on connection c: buf is filled and the tag dispatched (107-128);
\* all of this is local to the callback
CbEnter(c) ==
    /\ ~restarted /\ pc[c] = "idle"
    /\ Len(trace) < MaxConcMsgs
    /\ \E om \in ConcMessages :
           /\ trace' = Append(trace, [op |-> "write", om |-> om])
           /\ loc' = [loc EXCEPT ![c] = [om |-> om, seq |-> Len(trace) + 1, err |-> FALSE]]
           /\ Goto(c, Handler(om))
    /\ overlap' = (overlap \/ \E d \in Conns \ {c} : pc[d] # "idle")
    /\ UNCHANGED <<session, restarted, sinklog, ctxt, prev, mark>>

\* ---- handle_ota_init, line by line
Init39(c) ==
    /\ Running(c) /\ pc[c] = "init_39"
    /\ Goto(c, IF InitTooShort(Len(Data(c))) THEN "idle" ELSE "init_44")
    /\ UNCHANGED <<session, restarted, sinklog, ctxt, prev, mark, trace, loc, overlap>>

Init44(c) ==
    /\ Running(c) /\ pc[c] = "init_44"
    /\ \E g \in StackBytes :
           ota_total_size' = DecodeTotalSize(ReadData(loc[c].om, InitMinLen, g))
    /\ Goto(c, "init_45")
    /\ UNCHANGED <<ota_handle, ota_partition, ota_bytes_written, receiving_state,
                   restarted, sinklog, ctxt, prev, mark, trace, loc, overlap>>

Init45(c) ==
    /\ Running(c) /\ pc[c] = "init_45"
    /\ ota_bytes_written' = 0
    /\ Goto(c, "init_46")
    /\ UNCHANGED <<ota_handle, ota_partition, ota_total_size, receiving_state,
                   restarted, sinklog, ctxt, prev, mark, trace, loc, overlap>>

Init46(c) ==
    /\ Running(c) /\ pc[c] = "init_46"
    /\ receiving_state' = RECEIVING
    /\ Goto(c, "init_50")
    /\ UNCHANGED <<ota_handle, ota_partition, ota_total_size, ota_bytes_written,
                   restarted, sinklog, ctxt, prev, mark, trace, loc, overlap>>

Init50(c) ==
    /\ Running(c) /\ pc[c] = "init_50"
    /\ \E part \in Partitions \cup {NULL} : ota_partition' = part
    /\ Goto(c, "init_51")
    /\ UNCHANGED <<ota_handle, ota_total_size, ota_bytes_written, receiving_state,
                   restarted, sinklog, ctxt, prev, mark, trace, loc, overlap>>

\* esp_err_t err = esp_ota_begin(ota_partition, ota_total_size, &ota_handle);
Init51(c) ==
    /\ Running(c) /\ pc[c] = "init_51"
    /\ \E ok \in BOOLEAN :
           /\ (ota_partition = NULL) => ~ok
           /\ sinklog' = Append(sinklog,
                   [op |-> "begin", partition |-> ota_partition,
                    size |-> SizeT(ota_total_size), ok |-> ok,
                    handle |-> IF ok THEN FreshHandle(sinklog) ELSE 0,
                    msg |-> loc[c].seq])
           /\ ota_handle' = HandleAfterBegin(ok, FreshHandle(sinklog))
           /\ SetErr(c, ~ok)
    /\ Goto(c, "init_52")
    /\ UNCHANGED <<ota_partition, ota_total_size, ota_bytes_written, receiving_state,
                   restarted, ctxt, prev, mark, trace, overlap>>

Init52(c) ==
    /\ Running(c) /\ pc[c] = "init_52"
    /\ receiving_state' = StateAfterErr(loc[c].err)
    /\ Goto(c, "idle")
    /\ UNCHANGED <<ota_handle, ota_partition, ota_total_size, ota_bytes_written,
                   restarted, sinklog, ctxt, prev, mark, trace, loc, overlap>>

\* ---- handle_ota_chunk, line by line
Chunk59(c) ==
    /\ Running(c) /\ pc[c] = "chunk_59"
    /\ Goto(c, IF receiving_state # RECEIVING THEN "idle" ELSE "chunk_64")
    /\ UNCHANGED <<session, restarted, sinklog, ctxt, prev, mark, trace, loc, overlap>>

Chunk64(c) ==
    /\ Running(c) /\ pc[c] = "chunk_64"
    /\ Goto(c, IF ota_handle = 0 THEN "idle" ELSE "chunk_69")
    /\ UNCHANGED <<session, restarted, sinklog, ctxt, prev, mark, trace, loc, overlap>>

\* esp_err_t err = esp_ota_write(ota_handle, data, len);
Chunk69(c) ==
    /\ Running(c) /\ pc[c] = "chunk_69"
    /\ \E ok \in BOOLEAN :
           /\ sinklog' = Append(sinklog,
                   [op |-> "write", handle |-> ota_handle, data |-> Data(c), ok |-> ok,
                    msg |-> loc[c].seq, seen |-> Len(trace)])
           /\ SetErr(c, ~ok)
    /\ Goto(c, "chunk_70")
    /\ UNCHANGED <<session, restarted, ctxt, prev, mark, trace, overlap>>

Chunk70(c) ==
    /\ Running(c) /\ pc[c] = "chunk_70"
    /\ receiving_state' = StateAfterErr(loc[c].err)
    /\ ota_bytes_written' = WrittenAfterWrite(~loc[c].err, Len(Data(c)))
    /\ Goto(c, "idle")
    /\ UNCHANGED <<ota_handle, ota_partition, ota_total_size,
                   restarted, sinklog, ctxt, prev, mark, trace, loc, overlap>>

\* ---- handle_ota_end, line by line
End80(c) ==
    /\ Running(c) /\ pc[c] = "end_80"
    /\ Goto(c, IF ota_handle = 0 THEN "idle" ELSE "end_85")
    /\ UNCHANGED <<session, restarted, sinklog, ctxt, prev, mark, trace, loc, overlap>>

\* esp_err_t err = esp_ota_end(ota_handle); if (err != ESP_OK) return;
End85(c) ==
    /\ Running(c) /\ pc[c] = "end_85"
    /\ \E ok \in BOOLEAN :
           /\ sinklog' = Append(sinklog,
                   [op |-> "end", handle |-> ota_handle, ok |-> ok, msg |-> loc[c].seq])
           /\ SetErr(c, ~ok)
           /\ Goto(c, IF ok THEN "end_91" ELSE "idle")
    /\ UNCHANGED <<session, restarted, ctxt, prev, mark, trace, overlap>>

\* err = esp_ota_set_boot_partition(ota_partition); if (err != ESP_OK) return;
End91(c) ==
    /\ Running(c) /\ pc[c] = "end_91"
    /\ \E ok \in BOOLEAN :
           /\ sinklog' = Append(sinklog,
                   [op |-> "set_boot", partition |-> ota_partition, ok |-> ok,
                    msg |-> loc[c].seq])
           /\ SetErr(c, ~ok)
           /\ Goto(c, IF ok THEN "end_98" ELSE "idle")
    /\ UNCHANGED <<session, restarted, ctxt, prev, mark, trace, overlap>>

\* esp_restart();
End98(c) ==
    /\ Running(c) /\ pc[c] = "end_98"
    /\ sinklog' = Append(sinklog, [op |-> "restart", msg |-> loc[c].seq])
    /\ restarted' = TRUE
    /\ UNCHANGED <<session, ctxt, prev, mark, trace, pc, loc, overlap>>

NextInterleaved ==
    \E c \in Conns :
        \/ CbEnter(c)
        \/ Init39(c) \/ Init44(c) \/ Init45(c) \/ Init46(c)
        \/ Init50(c) \/ Init51(c) \/ Init52(c)
        \/ Chunk59(c) \/ Chunk64(c) \/ Chunk69(c) \/ Chunk70(c)
        \/ End80(c) \/ End85(c) \/ End91(c) \/ End98(c)

SpecInterleaved == Init /\ [][NextInterleaved]_vars

\* =================================================================
\* Properties.  Each is about the last access: ctxt is the access, prev
\* the session before it, Snapshot the session after it, and LastCalls
\* the sink calls it made.
\* =================================================================
LastCalls == SubSeq(sinklog, mark + 1, Len(sinklog))
CallsBefore == SubSeq(sinklog, 1, mark)

IsWrite == ctxt.op = "write"
IsMsg(tag) == IsWrite /\ Len(ctxt.om) >= 1 /\ ctxt.om[1] = tag
IsInit == IsMsg(OTA_MSG_INIT)
IsChunk == IsMsg(OTA_MSG_CHUNK)
IsEnd == IsMsg(OTA_MSG_END)
Payload == Tail(ctxt.om)
ValidInit == IsInit /\ Len(Payload) >= 4
TruncatedInit == IsInit /\ Len(Payload) < 4
UnknownTag ==
    IsWrite /\ Len(ctxt.om) >= 1
        /\ ctxt.om[1] \notin {OTA_MSG_INIT, OTA_MSG_CHUNK, OTA_MSG_END}

NoSinkCall == LastCalls = <<>> /\ ~restarted
SessionUnchanged == Snapshot = prev

\* the big-endian unsigned 32-bit value of four bytes, b1*2^24 + b2*2^16 + b3*2^8 + b4
UnsignedBE(b) == [hi |-> b[1] * 256 + b[2], lo |-> b[3] * 256 + b[4]]

OpenSucceeded == Len(LastCalls) = 1 /\ LastCalls[1].op = "begin" /\ LastCalls[1].ok

\* C1 (as claimed, with the sink accepting the open): after an INIT whose payload
\* has at least 4 bytes announcing N, received in any state, state = Receiving,
\* written_size = 0 and expected_size = N.
C1_InitSetsSession ==
    (ValidInit /\ OpenSucceeded) =>
        /\ receiving_state = RECEIVING
        /\ ota_bytes_written = 0
        /\ Wide(ota_total_size) = UnsignedBE(Payload)

\* C1, where it holds: the announced size is below 2^31
C1_InitSetsSessionSmall ==
    (ValidInit /\ OpenSucceeded /\ Payload[1] < 128) =>
        /\ receiving_state = RECEIVING
        /\ ota_bytes_written = 0
        /\ Wide(ota_total_size) = UnsignedBE(Payload)

\* ---- runs of messages, read off the history
IsValidInitMsg(e) == e.op = "write" /\ Len(e.om) >= 1 + InitMinLen /\ e.om[1] = OTA_MSG_INIT
IsChunkMsg(e) == e.op = "write" /\ Len(e.om) >= 1 /\ e.om[1] = OTA_MSG_CHUNK

\* the last index of seq whose element satisfies P, 0 when there is none
LastIndex(seq, P(_)) ==
    LET I == { i \in 1..Len(seq) : P(seq[i]) }
    IN IF I = {} THEN 0 ELSE CHOOSE i \in I : \A j \in I : j <= i

IsBegin(c) == c.op = "begin"
Accepted(c) == c.op = "restart" \/ c.ok

RECURSIVE SumLen(_)
SumLen(seqs) == IF seqs = <<>> THEN 0 ELSE Len(Head(seqs)) + SumLen(Tail(seqs))

LastInit == LastIndex(trace, IsValidInitMsg)
LastBegin == LastIndex(sinklog, IsBegin)
\* the accesses after the last valid INIT, and the sink calls after its esp_ota_begin
AfterInit == SubSeq(trace, LastInit + 1, Len(trace))
AfterBegin == SubSeq(sinklog, LastBegin + 1, Len(sinklog))
ChunkPayloads == [j \in 1..Len(AfterInit) |-> Tail(AfterInit[j].om)]

\* INIT(N), then only CHUNKs, the sink accepting the open and every write
InitThenChunks ==
    /\ LastInit > 0
    /\ \A j \in 1..Len(AfterInit) : IsChunkMsg(AfterInit[j])
    /\ sinklog[LastBegin].ok
    /\ \A j \in 1..Len(AfterBegin) : Accepted(AfterBegin[j])

\* C2 (as claimed): after INIT(N) and k CHUNKs of lengths L1..Lk, the sink accepting
\* the open and every write, written_size = L1+...+Lk and the sink has received
\* exactly k writes, the j-th carrying the j-th chunk's payload, on the handle the
\* INIT opened.
C2_ChunksReachSinkInOrder ==
    InitThenChunks =>
        /\ ota_bytes_written = SumLen(ChunkPayloads)
        /\ Len(AfterBegin) = Len(AfterInit)
        /\ \A j \in 1..Len(AfterBegin) :
               /\ AfterBegin[j].op = "write"
               /\ AfterBegin[j].handle = sinklog[LastBegin].handle
               /\ AfterBegin[j].data = ChunkPayloads[j]

\* C2, where it holds: every chunk fits the 512-byte receive buffer with its tag
C2_FittingChunksReachSinkInOrder ==
    (InitThenChunks /\ \A j \in 1..Len(AfterInit) : Len(AfterInit[j].om) <= BufSize) =>
        /\ ota_bytes_written = SumLen(ChunkPayloads)
        /\ Len(AfterBegin) = Len(AfterInit)
        /\ \A j \in 1..Len(AfterBegin) :
               /\ AfterBegin[j].op = "write"
               /\ AfterBegin[j].handle = sinklog[LastBegin].handle
               /\ AfterBegin[j].data = ChunkPayloads[j]

\* C8 (as claimed): from boot, INIT(1024), CHUNK(512 bytes), CHUNK(512 bytes), END with
\* an accepting sink gives one open, two writes carrying the 1024 bytes sent in the
\* order sent, written_size = 1024 = expected_size, one finalize, one commit and one
\* restart, which is the last event.
RoundTripScenario ==
    /\ trace = << [op |-> "write", om |-> RoundTripInit],
                  [op |-> "write", om |-> RoundTripChunkA],
                  [op |-> "write", om |-> RoundTripChunkB],
                  [op |-> "write", om |-> RoundTripEnd] >>
    /\ \A i \in 1..Len(sinklog) : Accepted(sinklog[i])

C8_RoundTrip ==
    RoundTripScenario =>
        /\ Len(sinklog) = 6
        /\ sinklog[1].op = "begin" /\ sinklog[1].size = [hi |-> 0, lo |-> 1024]
        /\ sinklog[2].op = "write" /\ sinklog[2].handle = sinklog[1].handle
        /\ sinklog[3].op = "write" /\ sinklog[3].handle = sinklog[1].handle
        /\ sinklog[2].data = Tail(RoundTripChunkA)
        /\ sinklog[3].data = Tail(RoundTripChunkB)
        /\ ota_bytes_written = 1024 /\ ota_total_size = 1024
        /\ sinklog[4].op = "end" /\ sinklog[4].handle = sinklog[1].handle
        /\ sinklog[5].op = "set_boot" /\ sinklog[5].partition = sinklog[1].partition
        /\ sinklog[6].op = "restart"
        /\ restarted

\* C8 without the last byte of each write: the calls, their order and the byte counts
C8_RoundTripCounts ==
    RoundTripScenario =>
        /\ Len(sinklog) = 6
        /\ sinklog[1].op = "begin" /\ sinklog[1].size = [hi |-> 0, lo |-> 1024]
        /\ sinklog[2].op = "write" /\ Len(sinklog[2].data) = 512
        /\ sinklog[3].op = "write" /\ Len(sinklog[3].data) = 512
        /\ SubSeq(sinklog[2].data, 1, BufSize - 1) = Fill(BufSize - 1, 170)
        /\ SubSeq(sinklog[3].data, 1, BufSize - 1) = Fill(BufSize - 1, 187)
        /\ ota_bytes_written = 1024 /\ ota_total_size = 1024
        /\ sinklog[4].op = "end"
        /\ sinklog[5].op = "set_boot"
        /\ sinklog[6].op = "restart"
        /\ restarted

\* ---- C3
\* a sink write has failed and no valid INIT (no esp_ota_begin) has followed it,
\* before the last access
WriteFailedSinceInit ==
    \E i \in 1..mark :
        /\ sinklog[i].op = "write" /\ ~sinklog[i].ok
        /\ \A j \in (i + 1)..mark : sinklog[j].op # "begin"

WriteFailedNow ==
    IsChunk /\ LastCalls # <<>> /\ LastCalls[1].op = "write" /\ ~LastCalls[1].ok

\* C3: a CHUNK whose sink write fails leaves state = Error in that step and
\* written_size as it was; every CHUNK after it is ignored (no sink call, session
\* unchanged) until a valid INIT is processed.
C3_WriteFailureStopsChunks ==
    /\ WriteFailedNow =>
           /\ prev.state = RECEIVING
           /\ receiving_state = ERROR
           /\ ota_bytes_written = prev.written
           /\ Len(LastCalls) = 1
    /\ (IsChunk /\ WriteFailedSinceInit) => (NoSinkCall /\ SessionUnchanged)

C3_Witness == IsChunk /\ WriteFailedSinceInit /\ prev.handle # 0

\* ---- C4
IsEndStep(c) == c.op \in {"end", "set_boot", "restart"}

\* finalize; commit only after finalize succeeded; restart only after commit succeeded
EndInOrder(calls, h, p) ==
    /\ Len(calls) \in 1..3
    /\ calls[1].op = "end" /\ calls[1].handle = h
    /\ (Len(calls) >= 2) <=> calls[1].ok
    /\ (Len(calls) >= 2) => (calls[2].op = "set_boot" /\ calls[2].partition = p)
    /\ (Len(calls) = 3) <=> (Len(calls) >= 2 /\ calls[2].ok)
    /\ (Len(calls) = 3) => calls[3].op = "restart"
    /\ restarted <=> (Len(calls) = 3)

\* C4: an END with the handle set calls finalize, then commit of the target partition
\* only if finalize succeeded, then restart only if commit succeeded; a failure stops
\* the END there.  No other access calls finalize, commit or restart.
C4_EndStepsInOrder ==
    /\ (IsEnd /\ prev.handle # 0) => EndInOrder(LastCalls, prev.handle, prev.partition)
    /\ ~IsEnd => \A i \in 1..Len(LastCalls) : ~IsEndStep(LastCalls[i])

C4_Witness == IsEnd /\ prev.handle # 0 /\ Len(LastCalls) = 3 /\ restarted

\* ---- C5
NoValidInitBefore == \A i \in 1..(Len(trace) - 1) : ~IsValidInitMsg(trace[i])

\* C5: an END received when no valid INIT has been processed since boot calls neither
\* finalize nor commit nor restart and leaves the session unchanged, whatever CHUNK,
\* END, unknown-tag, empty and truncated-INIT messages came before.
C5_EndBeforeInitIgnored ==
    (IsEnd /\ NoValidInitBefore) => (NoSinkCall /\ SessionUnchanged)

C5_Witness ==
    /\ IsEnd /\ NoValidInitBefore
    /\ Len(trace) = 3
    /\ IsChunkMsg(trace[1])
    /\ trace[2].om = <<OTA_MSG_INIT, 0, 4>>

\* ---- C6
\* C6: a CHUNK received while state is not Receiving calls no sink operation and
\* leaves state, expected_size, written_size, the handle and the partition unchanged.
C6_ChunkOutsideReceivingIgnored ==
    (IsChunk /\ prev.state # RECEIVING) => (NoSinkCall /\ SessionUnchanged)

C6_Witness == IsChunk /\ prev.state = ERROR /\ prev.handle # 0

\* ---- C7
\* C7: an INIT with fewer than 4 payload bytes, or a message with an unknown tag,
\* received in any state, calls no sink operation and leaves the session unchanged.
C7_MalformedIgnored ==
    (TruncatedInit \/ UnknownTag) => (NoSinkCall /\ SessionUnchanged)

C7_Witness == TruncatedInit /\ prev.state = RECEIVING /\ prev.written > 0

\* ---- C9
\* C9: a zero-length write returns BLE_ATT_ERR_INVALID_ATTR_VALUE_LEN with no sink
\* call and no session change; a write of length >= 1 returns 0 whatever happened
\* inside (or does not return, when esp_restart was reached); no write returns
\* another value.
C9_OnlyEmptyWriteRejected ==
    IsWrite =>
        /\ (Len(ctxt.om) = 0) =>
               /\ ctxt.ret = BLE_ATT_ERR_INVALID_ATTR_VALUE_LEN
               /\ NoSinkCall /\ SessionUnchanged
        /\ (Len(ctxt.om) >= 1) => ctxt.ret = (IF restarted THEN NoReturn ELSE 0)

C9_Witness ==
    /\ IsWrite /\ Len(ctxt.om) >= 1 /\ ctxt.ret = 0
    /\ LastCalls # <<>> /\ ~Accepted(LastCalls[1])

\* ---- C10
\* C10 (as claimed): a CHUNK or an END calls the sink only if state = Receiving and
\* the handle is set.
C10_HonoredOnlyWhenReceiving ==
    ((IsChunk \/ IsEnd) /\ ~NoSinkCall) => (prev.state = RECEIVING /\ prev.handle # 0)

\* C10 (amended): a CHUNK calls the sink exactly when state = Receiving and the handle
\* is set; an END calls the sink exactly when the handle is set, whatever the state.
C10_HonoredWhenHandleSet ==
    /\ IsChunk => (~NoSinkCall <=> (prev.state = RECEIVING /\ prev.handle # 0))
    /\ IsEnd => (~NoSinkCall <=> prev.handle # 0)

C10_Witness == IsEnd /\ prev.state = ERROR /\ prev.handle # 0 /\ ~NoSinkCall

\* ---- C11
OpenFailedNow == ValidInit /\ Len(LastCalls) = 1 /\ IsBegin(LastCalls[1]) /\ ~LastCalls[1].ok

\* before the last access, the most recent esp_ota_begin had failed
LastOpenFailed ==
    LET b == LastIndex(CallsBefore, IsBegin)
    IN b > 0 /\ ~CallsBefore[b].ok

\* C11 (as claimed): a valid INIT whose sink open fails, in any state and after any
\* history, ends the step in Error with the sink handle unset; no CHUNK or END after
\* it reaches the sink until another INIT's open succeeds.
C11_OpenFailureUnsetsHandle ==
    /\ OpenFailedNow => (receiving_state = ERROR /\ ota_handle = 0)
    /\ ((IsChunk \/ IsEnd) /\ LastOpenFailed) => NoSinkCall

\* C11, the part that holds: the state is Error and CHUNKs stay out of the sink
C11_OpenFailureStopsChunks ==
    /\ OpenFailedNow => receiving_state = ERROR
    /\ (IsChunk /\ LastOpenFailed) => NoSinkCall

\* ---- C12
EndFailedNow ==
    /\ IsEnd /\ LastCalls # <<>>
    /\ LastCalls[1].op = "end"
    /\ \/ Len(LastCalls) = 1 /\ ~LastCalls[1].ok
       \/ /\ Len(LastCalls) >= 2 /\ LastCalls[1].ok
          /\ LastCalls[2].op = "set_boot" /\ ~LastCalls[2].ok

\* C12: an END whose finalize fails, or whose finalize succeeds and whose commit
\* fails, leaves state, expected_size and written_size exactly as they were and
\* triggers no restart.
C12_FailedEndChangesNothing ==
    EndFailedNow =>
        /\ receiving_state = prev.state
        /\ ota_total_size = prev.total
        /\ ota_bytes_written = prev.written
        /\ ~restarted
        /\ \A i \in 1..Len(LastCalls) : LastCalls[i].op # "restart"

C12_Witness ==
    /\ EndFailedNow /\ Len(LastCalls) = 2
    /\ prev.state = RECEIVING /\ prev.written > 0

\* ---- C13
\* C13 (as claimed): for every INIT payload of at least 4 bytes b0 b1 b2 b3 ...,
\* expected_size = b0*2^24 + b1*2^16 + b2*2^8 + b3 as an unsigned value in
\* 0..2^32-1, also for b0 >= 0x80; that same value is the size passed to the sink
\* open; the bytes after the fourth do not matter.
C13_SizeIsUnsignedBigEndian ==
    ValidInit =>
        /\ Wide(ota_total_size) = UnsignedBE(Payload)
        /\ LastCalls # <<>> /\ IsBegin(LastCalls[1])
        /\ LastCalls[1].size = UnsignedBE(Payload)

\* C13, the part that holds: the size passed to the sink open is the unsigned
\* big-endian value, and expected_size holds the same 32 bits (read as an int)
C13_SinkSizeIsUnsignedBigEndian ==
    ValidInit =>
        /\ SizeT(ota_total_size) = UnsignedBE(Payload)
        /\ LastCalls # <<>> /\ IsBegin(LastCalls[1])
        /\ LastCalls[1].size = UnsignedBE(Payload)

\* ---- C14
\* the i-th sink call is on a handle that an earlier successful esp_ota_begin returned
OnOpenedHandle(i) ==
    \E j \in 1..(i - 1) :
        IsBegin(sinklog[j]) /\ sinklog[j].ok /\ sinklog[j].handle = sinklog[i].handle

\* no esp_ota_end has been called on the handle of the i-th sink call before it
NotYetFinalized(i) ==
    \A j \in 1..(i - 1) :
        ~(sinklog[j].op = "end" /\ sinklog[j].handle = sinklog[i].handle)

\* C14 (as claimed): END consumes the sink handle, so every write and every finalize
\* the core issues is on a transaction that a successful INIT opened and that has not
\* been finalized yet: no CHUNK after an END and no second END reaches the sink
\* without a new successful INIT.
C14_HandleConsumedByEnd ==
    \A i \in 1..Len(sinklog) :
        (sinklog[i].op \in {"write", "end"}) => (OnOpenedHandle(i) /\ NotYetFinalized(i))

\* C14, the part that holds: every write and finalize is on a handle that a
\* successful INIT opened
C14_SinkCallsOnOpenedHandle ==
    \A i \in 1..Len(sinklog) :
        (sinklog[i].op \in {"write", "end"}) => OnOpenedHandle(i)

\* ---- C15
ReInit == ValidInit /\ prev.state = RECEIVING

\* C15 (as claimed): a valid INIT received while state = Receiving restarts the
\* session: written_size is 0 again (bytes counted before are not counted after),
\* expected_size is the new announced size, a new sink open is called, and no
\* finalize, abort or other sink call is made for the transaction open before.
C15_ReInitRestartsSession ==
    ReInit =>
        /\ ota_bytes_written = 0
        /\ Wide(ota_total_size) = UnsignedBE(Payload)
        /\ Len(LastCalls) = 1 /\ IsBegin(LastCalls[1])
        /\ LastCalls[1].size = UnsignedBE(Payload)

\* C15, the part that holds: the restart itself, expected_size holding the 32 bits
\* of the new announced size (read as an int)
C15_ReInitRestartsSessionBits ==
    ReInit =>
        /\ ota_bytes_written = 0
        /\ SizeT(ota_total_size) = UnsignedBE(Payload)
        /\ (Payload[1] < 128) => Wide(ota_total_size) = UnsignedBE(Payload)
        /\ Len(LastCalls) = 1 /\ IsBegin(LastCalls[1])
        /\ LastCalls[1].size = UnsignedBE(Payload)

\* ---- C16
IntoError == prev.state # ERROR /\ receiving_state = ERROR
IntoReceiving == prev.state # RECEIVING /\ receiving_state = RECEIVING
SinkFailedNow == \E i \in 1..Len(LastCalls) : ~Accepted(LastCalls[i])

\* C16 (as claimed): the initial state is Idle; a step takes the state to Error only
\* from Receiving and only when a sink operation failed in that step; a step takes
\* the state to Receiving only from Idle and only by a valid INIT.
C16_TransitionsAsClaimed ==
    /\ (trace = <<>>) => receiving_state = IDLE
    /\ IntoError => (prev.state = RECEIVING /\ SinkFailedNow)
    /\ IntoReceiving => (prev.state = IDLE /\ ValidInit)

\* C16 (amended): the initial state is Idle; a step takes the state to Error only
\* when a sink operation failed in that step, which is either the open of a valid
\* INIT, received in any state, or the write of a CHUNK received in Receiving; a
\* step takes the state to Receiving only by a valid INIT whose open succeeded,
\* from Idle or from Error.
C16_Transitions ==
    /\ (trace = <<>>) => receiving_state = IDLE
    /\ IntoError =>
           \/ OpenFailedNow
           \/ WriteFailedNow /\ prev.state = RECEIVING /\ Len(LastCalls) = 1
    /\ IntoReceiving =>
           (ValidInit /\ OpenSucceeded /\ prev.state \in {IDLE, ERROR})

\* Idle to Error by a failed open, then Error to Receiving by the next INIT
C16_Witness ==
    /\ IntoReceiving /\ prev.state = ERROR
    /\ Len(CallsBefore) = 1 /\ IsBegin(CallsBefore[1]) /\ ~CallsBefore[1].ok

\* ---- C17
\* C17: the written size is not held below the announced size.  A CHUNK received in
\* Receiving with the handle set is passed to the sink and, when the write succeeds,
\* its length is added to written_size, whatever expected_size is; an END with the
\* handle set runs finalize (then commit and restart as they succeed) whether or not
\* written_size equals expected_size.
C17_NoSizeLimit ==
    /\ (IsChunk /\ prev.state = RECEIVING /\ prev.handle # 0) =>
           /\ Len(LastCalls) = 1
           /\ LastCalls[1].op = "write" /\ LastCalls[1].handle = prev.handle
           /\ Len(LastCalls[1].data) = Len(Payload)
           /\ LastCalls[1].ok => ota_bytes_written = prev.written + Len(Payload)
    /\ (IsEnd /\ prev.handle # 0) =>
           /\ LastCalls # <<>> /\ LastCalls[1].op = "end"
           /\ (\A i \in 1..Len(LastCalls) : Accepted(LastCalls[i])) => restarted

\* INIT(0), a non-empty CHUNK, END: written_size > expected_size and the END ran
\* finalize, commit and restart
C17_Witness ==
    /\ IsEnd /\ restarted /\ Len(LastCalls) = 3
    /\ ota_total_size = 0
    /\ ota_bytes_written > ota_total_size

\* ---- C18
\* the i-th sink call is a commit, and the partition it commits is the one passed to
\* the esp_ota_begin that opened the handle finalized just before it
CommitsOpenedPartition(i) ==
    \E j \in 1..(i - 1) :
        /\ IsBegin(sinklog[j]) /\ sinklog[j].ok
        /\ sinklog[j].handle = sinklog[i - 1].handle
        /\ sinklog[j].partition = sinklog[i].partition

\* the last esp_ota_begin before the i-th sink call succeeded
LastOpenBeforeSucceeded(i) ==
    LET b == LastIndex(SubSeq(sinklog, 1, i - 1), IsBegin)
    IN b > 0 /\ sinklog[b].ok

\* C18 (as claimed): the partition an END commits is the partition selected by the
\* INIT that opened the transaction this END finalizes, after any sequence of
\* messages, also one in which a later INIT's sink open failed.
C18_CommitsPartitionOfFinalized ==
    \A i \in 2..Len(sinklog) :
        (sinklog[i].op = "set_boot") => CommitsOpenedPartition(i)

\* C18, where it holds: no INIT's open has failed since the transaction was opened
C18_CommitsPartitionOfLastOpen ==
    \A i \in 2..Len(sinklog) :
        (sinklog[i].op = "set_boot" /\ LastOpenBeforeSucceeded(i)) =>
            CommitsOpenedPartition(i)

\* ---- C20
ValidInitProcessed == \E i \in 1..Len(trace) : IsValidInitMsg(trace[i])

\* C20: between boot and restart the session never returns to Idle: no step leaves
\* Idle for Idle again, and once a valid INIT has been processed the state is
\* Receiving or Error after every later message.  Whenever state = Idle the handle is
\* unset, expected_size = written_size = 0 and the sink has never been called, so no
\* END finds a stale handle in Idle and no sink call is made while Idle.
C20_NeverBackToIdle ==
    /\ (prev.state # IDLE) => receiving_state # IDLE
    /\ ValidInitProcessed => receiving_state \in {RECEIVING, ERROR}
    /\ (receiving_state = IDLE) =>
           /\ ota_handle = 0
           /\ ota_total_size = 0 /\ ota_bytes_written = 0
           /\ sinklog = <<>> /\ ~restarted

\* a valid INIT, a CHUNK, then an END whose finalize and commit succeeded: at the
\* restart the state is still Receiving
C20_Witness ==
    /\ Len(trace) = 3 /\ IsValidInitMsg(trace[1]) /\ IsChunkMsg(trace[2])
    /\ IsEnd /\ restarted
    /\ receiving_state = RECEIVING /\ ota_bytes_written > 0

\* ---- C19
\* the i-th sink call, a write, is on the handle opened by the most recent valid INIT
\* that had arrived when the write was made
WriteOnLatestInitHandle(i) ==
    LET latest == LastIndex(SubSeq(trace, 1, sinklog[i].seen), IsValidInitMsg)
    IN \E j \in 1..(i - 1) :
           /\ IsBegin(sinklog[j]) /\ sinklog[j].ok
           /\ sinklog[j].handle = sinklog[i].handle
           /\ sinklog[j].msg = latest

\* C19: with the callbacks of two connections interleaving statement by statement, a
\* CHUNK can be written through a handle that the most recent INIT did not open,
\* that INIT having set state = Receiving and written_size = 0 but not yet opened
\* its transaction (C19_Witness); as long as no callback has started while another
\* was running, every CHUNK written uses the handle the most recent valid INIT
\* opened.
C19_SerialWritesUseLatestInit ==
    ~overlap =>
        \A i \in 1..Len(sinklog) :
            (sinklog[i].op = "write") => WriteOnLatestInitHandle(i)

C19_Witness ==
    \E c \in Conns, d \in Conns :
        /\ c # d /\ overlap
        /\ pc[c] = "chunk_70" /\ pc[d] \in {"init_50", "init_51"}
        /\ sinklog # <<>>
        /\ sinklog[Len(sinklog)].op = "write"
        /\ sinklog[Len(sinklog)].msg = loc[c].seq
        /\ loc[d].seq = LastIndex(trace, IsValidInitMsg)
        /\ loc[d].seq < loc[c].seq
        /\ ~WriteOnLatestInitHandle(Len(sinklog))
        /\ receiving_state = RECEIVING /\ ota_bytes_written = 0

====
